---- MODULE Spec2Model ----
(***************************************************************************)
(* State-machine model of src/js/mesh-viewer.js: three orbit-controlled    *)
(* viewers whose cameras are synchronised by syncCameras, the rotate and   *)
(* pause toggles, sample-tab switching and the asynchronous GLB loads.     *)
(*                                                                         *)
(* JavaScript runs every handler to completion.  A handler that walks the  *)
(* viewer list (animate, syncCameras) is modelled step by step, one        *)
(* viewer per step, and no other handler is enabled until it has finished  *)
(* (Idle).  The 'change' event that OrbitControls.update() dispatches is a *)
(* step of its own (ChangeListener), so that the call of syncCameras it    *)
(* makes can be observed in isolation.                                     *)
(*                                                                         *)
(* Geometry is discretised.  Angles are the twelve directions of the       *)
(* 3-4-5 triangle (0, a, 90-a, 90, ... with a = atan(3/4)), whose sines    *)
(* and cosines are exact fifths; radii are multiples of 25, so that every  *)
(* Cartesian coordinate is an integer and THREE.Spherical.setFromVector3   *)
(* and THREE.Vector3.setFromSphericalCoords are computed exactly.          *)
(***************************************************************************)
EXTENDS Integers, Sequences, FiniteSets

(* ---------------------------------------------------------------- bounds *)

\* The number of loadTab calls of a run (the first is DOMContentLoaded's).
MaxTabs == 2

(* -------------------------------------------------------------- geometry *)

\* 5*sin and 5*cos of the lattice angle with index i (0-based), i in 0..11.
Sin5Table == <<0, 3, 4, 5, 4, 3, 0, -3, -4, -5, -4, -3>>
Cos5Table == <<5, 4, 3, 0, -3, -4, -5, -4, -3, 0, 3, 4>>

NAzimuth == Len(Sin5Table)
HalfTurn == NAzimuth \div 2
QuarterTurn == NAzimuth \div 4

Sin5(i) == Sin5Table[(i % NAzimuth) + 1]
Cos5(i) == Cos5Table[(i % NAzimuth) + 1]

\* Radii are multiples of Unit, which keeps r*sin*sin an integer.
Unit == 5 * 5
Radii == {Unit, 2 * Unit}
MaxCoord == 4 * Unit

Azimuths == 0 .. (NAzimuth - 1)
\* Polar angles strictly between the poles: OrbitControls keeps phi inside
\* [EPS, pi - EPS] (Spherical.makeSafe), so a camera is never on a pole.
Polars == 1 .. (HalfTurn - 1)

Origin == <<0, 0, 0>>

VecAdd(a, b) == <<a[1] + b[1], a[2] + b[2], a[3] + b[3]>>
VecSub(a, b) == <<a[1] - b[1], a[2] - b[2], a[3] - b[3]>>

\* Math.sqrt on the lattice (exact there; the floor elsewhere).
Sqrt(n) == CHOOSE r \in 0 .. MaxCoord : r * r <= n /\ n < (r + 1) * (r + 1)

\* Math.atan2(x, z): the direction of (x, z); 0 for the zero vector.
Atan2(x, z) ==
  IF x = 0 /\ z = 0 THEN 0
  ELSE CHOOSE t \in Azimuths :
         /\ x * Cos5(t) = z * Sin5(t)
         /\ x * Sin5(t) >= 0
         /\ z * Cos5(t) >= 0

\* Math.acos(y / radius), an index in 0..HalfTurn.
Acos(y, radius) == CHOOSE p \in 0 .. HalfTurn : Cos5(p) * radius = 5 * y

\* THREE.Spherical.setFromVector3
setFromVector3(v) ==
  LET radius == Sqrt(v[1] * v[1] + v[2] * v[2] + v[3] * v[3])
  IN IF radius = 0
       THEN [radius |-> 0, phi |-> 0, theta |-> 0]
       ELSE [radius |-> radius, phi |-> Acos(v[2], radius), theta |-> Atan2(v[1], v[3])]

\* THREE.Vector3.setFromSphericalCoords
setFromSphericalCoords(radius, phi, theta) ==
  LET sinPhiRadius5 == Sin5(phi) * radius
  IN << (sinPhiRadius5 * Sin5(theta)) \div (5 * 5),
        (Cos5(phi) * radius) \div 5,
        (sinPhiRadius5 * Cos5(theta)) \div (5 * 5) >>

(* ------------------------------------------------------------- constants *)

\* loadTab builds three viewers: condition, gen1, gen2.
ViewersPerTab == 3

\* camera.position.set(0, 1.5, 3) on the lattice: radius Unit, polar index 2
\* (the lattice angle nearest to atan(3 / 1.5)), azimuth 0.
InitialOffset == setFromSphericalCoords(Unit, 2, 0)

\* One step of auto-rotation, 2*pi/60/60 * autoRotateSpeed in the library, is
\* one quarter turn of the lattice (an exact rotation there).
AutoRotateStep == QuarterTurn

Ids == 1 .. (ViewersPerTab * MaxTabs)

(* ----------------------------------------------------------------- state *)

VARIABLES
  started,            \* DOMContentLoaded has run: the click handlers exist
  allViewers,         \* let allViewers: the current group, a sequence of ids
  created,            \* how many viewers initViewer has built so far
  isSyncing,          \* let isSyncing
  isRotating,         \* let isRotating
  isPaused,           \* let isPaused
  autoRotate,         \* controls.autoRotate of each viewer of the group
  userIsInteracting,  \* controls.userIsInteracting of each viewer of the group
  ctlState,           \* OrbitControls' own state: "NONE" or "ROTATE"
  position,           \* camera.position of each viewer of the group
  target,             \* controls.target of each viewer of the group
  disposed,           \* renderer.dispose() was called, per viewer ever built
  sceneModel,         \* the viewer's scene holds its loaded model
  loading,            \* the viewer's loading indicator
  frame,              \* animate(): index of the next viewer to update, 0 outside
  stack,              \* the running syncCameras passes: [src, idx, origin]
  pendingChange,      \* a viewer whose 'change' listener is about to run, or 0
  changeOrigin,       \* what dispatched that event: "drag", "frame" or "sync"
  lastEvent,          \* history: the handler that ran last (recorded by SpecUI)
  prePause            \* history: the rotate flag when pause went on, while paused

flags == <<isRotating, isPaused>>
cams == <<position, target>>
ctl == <<autoRotate, userIsInteracting, ctlState>>
loads == <<disposed, sceneModel, loading>>
calls == <<frame, stack, pendingChange, changeOrigin>>
history == <<lastEvent, prePause>>
vars == <<started, allViewers, created, isSyncing, flags, cams, ctl, loads, calls, history>>

Range(s) == {s[i] : i \in 1 .. Len(s)}
Group == Range(allViewers)
Built == 1 .. created

\* No handler is running: the event loop may take the next event.
Idle == frame = 0 /\ stack = <<>> /\ pendingChange = 0

Init ==
  /\ started = FALSE
  /\ allViewers = <<>>
  /\ created = 0
  /\ isSyncing = FALSE
  /\ isRotating = TRUE
  /\ isPaused = FALSE
  /\ autoRotate = <<>>
  /\ userIsInteracting = <<>>
  /\ ctlState = <<>>
  /\ position = <<>>
  /\ target = <<>>
  /\ disposed = <<>>
  /\ sceneModel = <<>>
  /\ loading = <<>>
  /\ frame = 0
  /\ stack = <<>>
  /\ pendingChange = 0
  /\ changeOrigin = "none"
  /\ lastEvent = "none"
  /\ prePause = "none"

(* ------------------------------------------------- OrbitControls.update *)

\* Spherical.makeSafe after the clamp to [minPolarAngle, maxPolarAngle]:
\* phi is kept off the poles.
makeSafe(phi) ==
  IF phi < 1 THEN 1 ELSE IF phi > HalfTurn - 1 THEN HalfTurn - 1 ELSE phi

\* The camera position controls.update() leaves for viewer v whose camera is
\* at pos: the offset from the target in spherical coordinates, turned by one
\* auto-rotation step when autoRotate is set and the user is not rotating
\* this viewer, then written back.  Pan and zoom are disabled, so the target
\* and the radius stay.
update(v, pos) ==
  LET s == setFromVector3(VecSub(pos, target[v]))
      theta == IF autoRotate[v] /\ ctlState[v] = "NONE"
                 THEN (s.theta + NAzimuth - AutoRotateStep) % NAzimuth
                 ELSE s.theta
  IN VecAdd(target[v], setFromSphericalCoords(s.radius, makeSafe(s.phi), theta))

(* ----------------------------------------------------------- syncCameras *)

\* if (isSyncing) return;
syncGuardNone == FALSE
syncGuard == isSyncing

\* syncCameras(sourceControls), up to the forEach: the guard, the flag, and
\* the pass that starts at the first viewer.
syncCameras(src, org) ==
  IF syncGuard
    THEN UNCHANGED <<isSyncing, stack>>
    ELSE /\ isSyncing' = TRUE
         /\ stack' = <<[src |-> src, idx |-> 1, origin |-> org]>> \o stack

\* if (viewer.controls === sourceControls) return;
isSourceNever(v, src) == FALSE
isSource(v, src) == v = src

\* The position the forEach body writes into viewer v's camera: the source's
\* spherical offset, applied to v's own target.
newPos(v, src) ==
  LET spherical == setFromVector3(VecSub(position[src], target[src]))
  IN VecAdd(setFromSphericalCoords(spherical.radius, spherical.phi, spherical.theta),
            target[v])

\* One iteration of allViewers.forEach in syncCameras.  The viewer's
\* controls.update() dispatches 'change' when the camera has moved.
SyncStep ==
  /\ stack # <<>> /\ pendingChange = 0
  /\ Head(stack).idx <= Len(allViewers)
  /\ LET top == Head(stack)
         v == allViewers[top.idx]
         moved == update(v, newPos(v, top.src))
     IN /\ stack' = <<[top EXCEPT !.idx = top.idx + 1]>> \o Tail(stack)
        /\ IF isSource(v, top.src)
             THEN UNCHANGED <<position, pendingChange, changeOrigin>>
             ELSE /\ position' = [position EXCEPT ![v] = moved]
                  /\ IF moved # position[v]
                       THEN pendingChange' = v /\ changeOrigin' = "sync"
                       ELSE UNCHANGED <<pendingChange, changeOrigin>>
  /\ UNCHANGED <<started, allViewers, created, isSyncing, flags, target, ctl, loads, frame>>

\* isSyncing = false; and the return.
SyncEnd ==
  /\ stack # <<>> /\ pendingChange = 0
  /\ Head(stack).idx > Len(allViewers)
  /\ isSyncing' = FALSE
  /\ stack' = Tail(stack)
  /\ UNCHANGED <<started, allViewers, created, flags, cams, ctl, loads, frame,
                 pendingChange, changeOrigin>>

\* controls.addEventListener('change', ...)
ChangeListener ==
  /\ pendingChange # 0
  /\ IF userIsInteracting[pendingChange]
       THEN syncCameras(pendingChange, changeOrigin)
       ELSE UNCHANGED <<isSyncing, stack>>
  /\ pendingChange' = 0
  /\ changeOrigin' = "none"
  /\ UNCHANGED <<started, allViewers, created, flags, cams, ctl, loads, frame>>

(* ------------------------------------------------------------ the mouse *)

Buttons == {"left", "other"}

\* mousedown on viewer v's canvas.  The page's listener sets
\* userIsInteracting for any button; OrbitControls starts a rotation for the
\* left button only (enablePan and enableZoom are false).
MouseDown(v, button) ==
  /\ Idle /\ v \in Group
  /\ userIsInteracting' = [userIsInteracting EXCEPT ![v] = TRUE]
  /\ ctlState' = IF button = "left" THEN [ctlState EXCEPT ![v] = "ROTATE"] ELSE ctlState
  /\ UNCHANGED <<started, allViewers, created, isSyncing, flags, cams, autoRotate, loads, calls>>

\* mouseup on the document: every viewer's listener clears its flag, and
\* OrbitControls ends the rotation.
MouseUp ==
  /\ Idle /\ started
  /\ userIsInteracting' = [v \in Group |-> FALSE]
  /\ ctlState' = [v \in Group |-> "NONE"]
  /\ UNCHANGED <<started, allViewers, created, isSyncing, flags, cams, autoRotate, loads, calls>>

\* The angles a drag may leave the camera at.
DragPolars == {2, 3}
DragAzimuths == {0, QuarterTurn, 2 * QuarterTurn, 3 * QuarterTurn}

\* A mouse move while viewer v is being rotated: OrbitControls turns the
\* camera about its target and calls update(), which dispatches 'change'.
MouseMove(v, phi, theta) ==
  /\ Idle /\ v \in Group /\ ctlState[v] = "ROTATE"
  /\ LET s == setFromVector3(VecSub(position[v], target[v]))
         moved == VecAdd(target[v], setFromSphericalCoords(s.radius, phi, theta))
     IN /\ moved # position[v]
        /\ position' = [position EXCEPT ![v] = moved]
  /\ pendingChange' = v
  /\ changeOrigin' = "drag"
  /\ UNCHANGED <<started, allViewers, created, isSyncing, flags, target, ctl, loads, frame, stack>>

(* -------------------------------------------------------------- animate *)

\* requestAnimationFrame(animate): a frame begins.
AnimateFrame ==
  /\ Idle /\ started
  /\ frame' = 1
  /\ UNCHANGED <<started, allViewers, created, isSyncing, flags, cams, ctl, loads,
                 stack, pendingChange, changeOrigin>>

\* One iteration of allViewers.forEach in animate: controls.update(), which
\* dispatches 'change' when the camera has moved, then the render.
FrameStep ==
  /\ frame # 0 /\ stack = <<>> /\ pendingChange = 0
  /\ frame <= Len(allViewers)
  /\ LET v == allViewers[frame]
         moved == update(v, position[v])
     IN /\ position' = [position EXCEPT ![v] = moved]
        /\ IF moved # position[v]
             THEN pendingChange' = v /\ changeOrigin' = "frame"
             ELSE UNCHANGED <<pendingChange, changeOrigin>>
  /\ frame' = frame + 1
  /\ UNCHANGED <<started, allViewers, created, isSyncing, flags, target, ctl, loads, stack>>

FrameEnd ==
  /\ frame # 0 /\ stack = <<>> /\ pendingChange = 0
  /\ frame > Len(allViewers)
  /\ frame' = 0
  /\ UNCHANGED <<started, allViewers, created, isSyncing, flags, cams, ctl, loads,
                 stack, pendingChange, changeOrigin>>

(* --------------------------------------------------------------- loadTab *)

\* clearViewers: every viewer of the group has its renderer disposed.
clearViewersNoDispose(d) == d
clearViewers(d) == [v \in DOMAIN d |-> d[v] \/ v \in Group]

\* allViewers.forEach(v => v.controls.autoRotate = isRotating), which
\* overwrites initViewer's controls.autoRotate = true.
autoRotateOnLoadDefault == TRUE
autoRotateOnLoad == isRotating

loadTab ==
  LET fresh == (created + 1) .. (created + ViewersPerTab)
  IN /\ allViewers' = [i \in 1 .. ViewersPerTab |-> created + i]
     /\ created' = created + ViewersPerTab
     /\ disposed' = [v \in Built \cup fresh |->
                       IF v \in fresh THEN FALSE ELSE clearViewers(disposed)[v]]
     /\ sceneModel' = [v \in Built \cup fresh |-> IF v \in fresh THEN FALSE ELSE sceneModel[v]]
     /\ loading' = [v \in Built \cup fresh |-> IF v \in fresh THEN "Loading..." ELSE loading[v]]
     /\ position' = [v \in fresh |-> VecAdd(Origin, InitialOffset)]
     /\ target' = [v \in fresh |-> Origin]
     /\ autoRotate' = [v \in fresh |-> autoRotateOnLoad]
     /\ userIsInteracting' = [v \in fresh |-> FALSE]
     /\ ctlState' = [v \in fresh |-> "NONE"]

\* window 'DOMContentLoaded': the handlers are registered, example_1 is
\* loaded and the animation starts.
DOMContentLoaded ==
  /\ ~started
  /\ started' = TRUE
  /\ loadTab
  /\ UNCHANGED <<isSyncing, flags, calls>>

\* A click on a sample tab.
TabClick ==
  /\ Idle /\ started
  /\ created + ViewersPerTab <= ViewersPerTab * MaxTabs
  /\ loadTab
  /\ UNCHANGED <<started, isSyncing, flags, calls>>

(* ------------------------------------------------------------ the toggles *)

\* btn-rotate
RotateClick ==
  /\ Idle /\ started
  /\ isRotating' = ~isRotating
  /\ autoRotate' = [v \in Group |-> isRotating']
  /\ UNCHANGED <<started, allViewers, created, isSyncing, isPaused, cams,
                 userIsInteracting, ctlState, loads, calls>>

\* What btn-pause writes into every controls.autoRotate.
autoRotateOnPauseResume(paused) == IF paused THEN FALSE ELSE TRUE
autoRotateOnPause(paused) == IF paused THEN FALSE ELSE isRotating

\* btn-pause
PauseClick ==
  /\ Idle /\ started
  /\ isPaused' = ~isPaused
  /\ autoRotate' = [v \in Group |-> autoRotateOnPause(isPaused')]
  /\ UNCHANGED <<started, allViewers, created, isSyncing, isRotating, cams,
                 userIsInteracting, ctlState, loads, calls>>

(* ---------------------------------------------------------- GLTF loading *)

\* The viewer whose scene and loading indicator viewer v's load callbacks
\* write: the callbacks close over v's own scene and loading element.
callbackViewerBySlot(v) ==
  IF v \in Group \/ allViewers = <<>> THEN v
  ELSE allViewers[((v - 1) % ViewersPerTab) + 1]
callbackViewer(v) == v

\* loader.load's success callback for viewer v.
LoadSuccess(v) ==
  /\ Idle /\ v \in Built /\ loading[v] = "Loading..."
  /\ sceneModel' = [sceneModel EXCEPT ![callbackViewer(v)] = TRUE]
  /\ loading' = [loading EXCEPT ![callbackViewer(v)] = "hidden"]
  /\ UNCHANGED <<started, allViewers, created, isSyncing, flags, cams, ctl, disposed, calls>>

\* loader.load's error callback for viewer v.
LoadError(v) ==
  /\ Idle /\ v \in Built /\ loading[v] = "Loading..."
  /\ loading' = [loading EXCEPT ![callbackViewer(v)] = "Error loading model"]
  /\ UNCHANGED <<started, allViewers, created, isSyncing, flags, cams, ctl, disposed,
                 sceneModel, calls>>

(* -------------------------------------------------------- specifications *)

\* History of the handlers, for the properties that speak of what happened.
Observe(e) == lastEvent' = e /\ UNCHANGED prePause

OnOff(b) == IF b THEN "on" ELSE "off"

\* A pause click: going on, the rotate flag is remembered; going off, the
\* event says whether the rotate toggle was flipped in between.
ObservePause ==
  IF isPaused'
    THEN lastEvent' = "pause" /\ prePause' = OnOff(isRotating)
    ELSE /\ lastEvent' = IF prePause = OnOff(isRotating) THEN "resume" ELSE "resumeFlipped"
         /\ prePause' = "none"

\* A load callback: late when its viewer has been discarded by a tab switch.
ObserveLoad(v) == Observe(IF disposed[v] THEN "lateLoad" ELSE "load")

Unobserved == UNCHANGED history

\* The page without the mouse and the animation loop: the toggles, the tab
\* switches and the asynchronous loads.
NextUI ==
  \/ DOMContentLoaded /\ Observe("tab")
  \/ TabClick /\ Observe("tab")
  \/ RotateClick /\ Observe("rotate")
  \/ PauseClick /\ ObservePause
  \/ \E v \in Ids : LoadSuccess(v) /\ ObserveLoad(v)
  \/ \E v \in Ids : LoadError(v) /\ ObserveLoad(v)

SpecUI == Init /\ [][NextUI]_vars

\* The page while its models are still loading: the toggles, the tab
\* switches, the mouse and the animation loop.
NextCam ==
  \/ DOMContentLoaded /\ Unobserved
  \/ TabClick /\ Unobserved
  \/ RotateClick /\ Unobserved
  \/ PauseClick /\ Unobserved
  \/ \E v \in Ids, b \in Buttons : MouseDown(v, b) /\ Unobserved
  \/ MouseUp /\ Unobserved
  \/ \E v \in Ids, p \in DragPolars, t \in DragAzimuths : MouseMove(v, p, t) /\ Unobserved
  \/ ChangeListener /\ Unobserved
  \/ SyncStep /\ Unobserved
  \/ SyncEnd /\ Unobserved
  \/ AnimateFrame /\ Unobserved
  \/ FrameStep /\ Unobserved
  \/ FrameEnd /\ Unobserved

SpecCam == Init /\ [][NextCam]_vars

\* The whole page.
Next ==
  \/ NextUI
  \/ NextCam

Spec == Init /\ [][Next]_vars

(* --------------------------------------------- syncCameras on any cameras *)

\* Orbit targets for syncCameras on viewers with different pivots (the page
\* itself never moves a target off the origin).
SyncTargets ==
  { [v \in 1 .. ViewersPerTab |-> Origin],
    [v \in 1 .. ViewersPerTab |-> <<(v - 1) * Unit, 0, (1 - v) * Unit>>] }

\* The rotate flag, the pause flag and the auto-rotate value of the group
\* that the toggles can leave.
SyncFlags == { <<TRUE, FALSE, TRUE>>, <<FALSE, FALSE, FALSE>>, <<TRUE, TRUE, FALSE>> }

\* The viewers with a mouse button down on them, when k is the one a drag
\* would rotate: none, k alone, or all of them.
SyncHeld(k) == { {}, {k}, 1 .. ViewersPerTab }

\* A loaded group in which viewer k has been turned to any lattice offset
\* and the others still stand at the initial offset.
InitSync ==
  \E k \in 1 .. ViewersPerTab, r \in Radii, p \in Polars, t \in Azimuths,
     tg \in SyncTargets, fl \in SyncFlags :
   \E held \in SyncHeld(k) :
    /\ started = TRUE
    /\ allViewers = [i \in 1 .. ViewersPerTab |-> i]
    /\ created = ViewersPerTab
    /\ isSyncing = FALSE
    /\ isRotating = fl[1]
    /\ isPaused = fl[2]
    /\ autoRotate = [v \in 1 .. ViewersPerTab |-> fl[3]]
    /\ userIsInteracting = [v \in 1 .. ViewersPerTab |-> v \in held]
    /\ ctlState = [v \in 1 .. ViewersPerTab |-> IF v = k /\ v \in held THEN "ROTATE" ELSE "NONE"]
    /\ target = tg
    /\ position = [v \in 1 .. ViewersPerTab |->
                     VecAdd(tg[v], IF v = k THEN setFromSphericalCoords(r, p, t)
                                            ELSE InitialOffset)]
    /\ disposed = [v \in 1 .. ViewersPerTab |-> FALSE]
    /\ sceneModel = [v \in 1 .. ViewersPerTab |-> TRUE]
    /\ loading = [v \in 1 .. ViewersPerTab |-> "hidden"]
    /\ frame = 0
    /\ stack = <<>>
    /\ pendingChange = 0
    /\ changeOrigin = "none"
    /\ lastEvent = "none"
    /\ prePause = "none"

\* syncCameras(viewer.controls), called on its own.
SyncCall(src) ==
  /\ Idle /\ src \in Group
  /\ syncCameras(src, "call")
  /\ UNCHANGED <<started, allViewers, created, flags, cams, ctl, loads, frame,
                 pendingChange, changeOrigin>>

NextSync ==
  \/ \E src \in Ids : SyncCall(src) /\ Unobserved
  \/ ChangeListener /\ Unobserved
  \/ SyncStep /\ Unobserved
  \/ SyncEnd /\ Unobserved

SpecSync == InitSync /\ [][NextSync]_vars

(* ------------------------------------------------------------ properties *)

\* The spherical offset of viewer v's camera from v's own target.
offset(v) == setFromVector3(VecSub(position[v], target[v]))

\* A pass of syncCameras has gone through the whole group and is about to
\* clear the flag and return.
PassDone == stack # <<>> /\ Head(stack).idx > Len(allViewers)

\* C1: between handlers, whenever pause is active, auto-rotate is off on
\* every viewer of the current group, whatever the rotate flag is.
C1_PausedMeansNoAutoRotate ==
  (Idle /\ isPaused) => \A v \in Group : ~autoRotate[v]

\* C2: the pause toggle never changes the rotate flag, and when it switches
\* pause off every viewer's autoRotate is the rotate flag of that moment.
C2_PauseOffRestoresRotateFlag ==
  [][ /\ (isPaused' # isPaused) => (isRotating' = isRotating)
      /\ (isPaused /\ ~isPaused') =>
            \A v \in Range(allViewers') : autoRotate'[v] = isRotating' ]_vars

\* C2's case: pause has just been switched off after the rotate toggle was
\* flipped from on to off while paused, and no viewer rotates.
C2_Witness ==
  /\ lastEvent = "resumeFlipped" /\ ~isPaused /\ ~isRotating
  /\ Group # {} /\ \A v \in Group : ~autoRotate[v]

\* C3: when a pass of syncCameras returns, every other viewer's spherical
\* offset from its own target equals the source's offset from its target.
C3_OffsetsEqualAfterSync ==
  PassDone => \A v \in Group \ {Head(stack).src} : offset(v) = offset(Head(stack).src)

\* A 'change' listener is about to call syncCameras while a pass is running.
ReentrantCall == pendingChange # 0 /\ userIsInteracting[pendingChange] /\ isSyncing

\* C4: a call of syncCameras made while a pass is in progress changes no
\* camera, no target, not the flag and not the running pass; passes never
\* nest; and a pass ends only after it has gone through the whole group.
C4_ReentrantCallIsNoOp ==
  [][ /\ ReentrantCall => UNCHANGED <<position, target, isSyncing, stack>>
      /\ Len(stack') <= 1
      /\ (stack # <<>> /\ stack' = <<>>) => PassDone ]_vars

\* C4's case: during a pass started by a drag, the update of another viewer
\* that has a button down on it has dispatched 'change'.
C4_Witness ==
  /\ ReentrantCall /\ changeOrigin = "sync"
  /\ Head(stack).origin = "drag" /\ pendingChange # Head(stack).src

\* The source of the pass that runs in this step (it starts, goes on or ends).
passSrc == IF stack # <<>> THEN Head(stack).src ELSE 0

\* C5: every step of syncCameras, from the call to the return, leaves the
\* source's camera, every target, the rotate and pause flags, every
\* autoRotate and the group as they were.
C5_SyncTouchesOnlyOtherCameras ==
  [][ (stack # <<>> \/ stack' # <<>>) =>
        /\ \A v \in Group : (v = passSrc \/ v = passSrc') => position'[v] = position[v]
        /\ UNCHANGED <<target, isRotating, isPaused, autoRotate, allViewers>> ]_vars

\* C5's case: a pass from a source two units from its target has brought the
\* other viewers, each about its own distinct target, to that radius.
C5_Witness ==
  /\ PassDone
  /\ \A u, v \in Group : u # v => target[u] # target[v]
  /\ \A v \in Group : offset(v).radius = 2 * Unit
  /\ \E v \in Group \ {Head(stack).src} : autoRotate[v]

\* C6: the group holds no viewer before the page has loaded and exactly
\* three afterwards, and the viewers whose renderer has not been disposed
\* are exactly those of the current group.
C6_GroupReplacedWholesale ==
  /\ Len(allViewers) = IF started THEN ViewersPerTab ELSE 0
  /\ Cardinality(Group) = Len(allViewers)
  /\ {v \in Built : ~disposed[v]} = Group

\* C6's case: a tab switch has replaced the first group.
C6_Witness ==
  /\ created = 2 * ViewersPerTab
  /\ \A v \in 1 .. ViewersPerTab : disposed[v]

\* C7: a tab switch gives every viewer of the new group the rotate flag as
\* its autoRotate, paused or not, and changes neither flag.
C7_NewGroupTakesRotateFlag ==
  [][ (allViewers' # allViewers) =>
        /\ \A v \in Range(allViewers') : autoRotate'[v] = isRotating'
        /\ UNCHANGED <<isRotating, isPaused>> ]_vars

\* C7's case: a tab switch made while paused with the rotate flag on has
\* left a rotating group under an active pause.
C7_Witness ==
  /\ lastEvent = "tab" /\ created > ViewersPerTab
  /\ isPaused /\ isRotating
  /\ \A v \in Group : autoRotate[v]

\* C8: a load callback of a discarded viewer changes the scene and loading
\* indicator of one discarded viewer only, and nothing of the current
\* group nor any flag.
C8_LateLoadLeavesGroupAlone ==
  [][ (lastEvent' = "lateLoad") =>
        /\ \A u \in Group : sceneModel'[u] = sceneModel[u] /\ loading'[u] = loading[u]
        /\ \E v \in Built \ Group : \A u \in Built \ {v} :
              sceneModel'[u] = sceneModel[u] /\ loading'[u] = loading[u]
        /\ UNCHANGED <<allViewers, created, cams, ctl, disposed, flags, isSyncing>> ]_vars

\* C8's case: a discarded viewer's model has just arrived while a viewer of
\* the current group is still loading.
C8_Witness ==
  /\ lastEvent = "lateLoad"
  /\ \E v \in Built \ Group : sceneModel[v]
  /\ \E u \in Group : loading[u] = "Loading..."

\* C9: between handlers all viewers of the group hold the same autoRotate,
\* which is the rotate flag whenever pause is not active.
C9_AutoRotateUniform ==
  Idle =>
    /\ \A u, v \in Group : autoRotate[u] = autoRotate[v]
    /\ ~isPaused => \A v \in Group : autoRotate[v] = isRotating

\* C9's case: pause has been switched off with the rotate flag off.
C9_Witness ==
  /\ lastEvent \in {"resume", "resumeFlipped"} /\ ~isRotating
  /\ Group # {} /\ \A v \in Group : ~autoRotate[v]

\* C10: every pass of syncCameras was started by a 'change' event that a
\* drag produced, never by one from animate's or a pass's own update().
C10_OnlyDragsStartPasses ==
  \A i \in 1 .. Len(stack) : stack[i].origin = "drag"

====
